---- MODULE Spec2Model ----
(***************************************************************************)
(* State-machine model of src/server/backup_docker_configs.py:             *)
(*   backup_configs()  - one run of the backup script, one step per        *)
(*                       external call (copy, stop, sleep, retry, start,   *)
(*                       make_archive, rotate_backups, rmtree);            *)
(*   rotate_backups()  - retention rotation of the archive directory.      *)
(* Every external call is a nondeterministic choice over its outcomes.     *)
(***************************************************************************)
EXTENDS Integers, Sequences, FiniteSets, TLC

\* ------------------------------------------------------------------------
\* Bounds of the model
\* ------------------------------------------------------------------------
\* largest number of items in SOURCE_CONFIG_DIR
MaxEntries == 2
\* largest max_to_keep passed to rotate_backups when it is run on its own
MaxKeep == 3
\* how many times the script is run in a row
MaxRuns == 3
\* largest N of a "Season N" folder of the analysed show
MaxSeason == 2
\* largest episode number of a file name
MaxEpisode == 3
\* largest number of items in a season folder
MaxFiles == 3

\* ------------------------------------------------------------------------
\* Program constants
\* ------------------------------------------------------------------------
MAX_BACKUPS == 7

\* ------------------------------------------------------------------------
\* File names are sequences of character codes, compared as Python compares
\* str values (code point by code point, a proper prefix is smaller).
\* ------------------------------------------------------------------------
\* "docker_configs_backup_"
ArchivePrefix ==
    <<100,111,99,107,101,114,95,99,111,110,102,105,103,115,95,98,97,99,107,117,112,95>>
\* ".zip"
ArchiveSuffix == <<46,122,105,112>>
\* "temp": basename of BACKUP_DEST_DIR, which lives in the archive directory
StagingName == <<116,101,109,112>>

StartsWith(f, p) ==
    /\ Len(f) >= Len(p)
    /\ SubSeq(f, 1, Len(p)) = p

EndsWith(f, s) ==
    /\ Len(f) >= Len(s)
    /\ SubSeq(f, Len(f) - Len(s) + 1, Len(f)) = s

\* a < b on Python str
LexLess(a, b) ==
    LET n == IF Len(a) < Len(b) THEN Len(a) ELSE Len(b)
        d == {i \in 1..n : a[i] # b[i]}
    IN  IF d = {} THEN Len(a) < Len(b)
        ELSE LET m == CHOOSE i \in d : \A j \in d : i <= j
             IN  a[m] < b[m]

\* two-digit zero-padded decimal, as %M and %S print it
TwoDigits(n) == <<48 + ((n \div 10) % 10), 48 + (n % 10)>>

\* datetime.now().strftime("%Y-%m-%d_%H-%M-%S") for the instant t seconds
\* after 2024-01-01 00:00:00 (t < 3600)
Timestamp(t) ==
    <<50,48,50,52,45,48,49,45,48,49,95,48,48,45>>
        \o TwoDigits((t \div 60) % 60) \o <<45>> \o TwoDigits(t % 60)

\* zip_filename_base + ".zip"
ArchiveName(t) == ArchivePrefix \o Timestamp(t) \o ArchiveSuffix

FileEntry(n) == [name |-> n, isfile |-> TRUE]
DirEntry(n)  == [name |-> n, isfile |-> FALSE]
StagingEntry == DirEntry(StagingName)

\* ------------------------------------------------------------------------
\* rotate_backups: pure parts
\* ------------------------------------------------------------------------
\* mutant: the filter without os.path.isfile
IsBackupFile_AnyKind(e) ==
    /\ StartsWith(e.name, ArchivePrefix)
    /\ EndsWith(e.name, ArchiveSuffix)

\* the filter of the list comprehension
IsBackupFile(e) ==
    /\ e.isfile
    /\ StartsWith(e.name, ArchivePrefix)
    /\ EndsWith(e.name, ArchiveSuffix)

\* os.listdir returns the names of a directory in an order the code does not
\* control, and the list comprehension keeps that order.  rotate_backups uses
\* backup_files only through len() and sort(), which do not depend on it, so
\* backup_files before the sort is the set of its elements (the names of one
\* directory are distinct).
BackupFiles(D) == {e.name : e \in {x \in D : IsBackupFile(x)}}

\* list.sort() on str (insertion sort; the names of one directory are distinct)
InsertSorted(s, x) ==
    LET p == 1 + Cardinality({i \in 1..Len(s) : ~LexLess(x, s[i])})
    IN  SubSeq(s, 1, p - 1) \o <<x>> \o SubSeq(s, p, Len(s))

\* mutant: the list is sorted in descending order
RECURSIVE SortNames_Descending(_)
SortNames_Descending(S) ==
    IF S = {} THEN <<>>
    ELSE LET m == CHOOSE x \in S : \A y \in S : x = y \/ LexLess(y, x)
         IN  <<m>> \o SortNames_Descending(S \ {m})

\* backup_files.sort(): the names, taken in some order, are put in place one
\* by one
RECURSIVE SortNames(_)
SortNames(S) ==
    IF S = {} THEN <<>>
    ELSE LET x == CHOOSE y \in S : TRUE
         IN  InsertSorted(SortNames(S \ {x}), x)

\* Python's s[:stop]
SliceTo(s, stop) ==
    LET n == Len(s)
        e == IF stop < 0 THEN (IF n + stop < 0 THEN 0 ELSE n + stop)
             ELSE (IF stop > n THEN n ELSE stop)
    IN  SubSeq(s, 1, e)

\* mutant: the slice taken from the wrong end, backup_files[max_to_keep:]
FilesToDelete_FromWrongEnd(backup_files, keep) ==
    SubSeq(SortNames(backup_files), keep + 1, Cardinality(backup_files))

\* backup_files[:-max_to_keep] after backup_files.sort()
FilesToDelete(backup_files, keep) ==
    SliceTo(SortNames(backup_files), 0 - keep)

\* the early return "within the limit"
NoRotationNeeded(backup_files, keep) == Cardinality(backup_files) <= keep


\* ------------------------------------------------------------------------
\* backup_configs: pure parts
\* ------------------------------------------------------------------------
\* mutant: the project directory is not checked
AfterInitialFailure_Unchecked(item, projects) == "stop"

\* "if os.path.isdir(docker_project_path)" after a failed initial copy
AfterInitialFailure(item, projects) ==
    IF item \in projects THEN "stop" ELSE "next"

\* "if container_stopped:" and the unconditional restart block after it
AfterStop(stopped) == IF stopped THEN "wait" ELSE "start"

\* mutant: the archive is made whatever the counters say
SomethingAttempted_Always(copied, errors) == TRUE

\* "if copied_count > 0 or error_count > 0"
SomethingAttempted(copied, errors) == copied > 0 \/ errors > 0

RECURSIVE Ascending(_)
Ascending(S) ==
    IF S = {} THEN <<>>
    ELSE LET m == CHOOSE x \in S : \A y \in S : x <= y
         IN  <<m>> \o Ascending(S \ {m})

\* os.listdir(SOURCE_CONFIG_DIR) returns the names in an order the code does
\* not control.  The listings explored are the ascending and the descending
\* one: of up to two names these are all the orders there are, of more names
\* they are two of them
ListingOrders(S) ==
    {Ascending(S), [i \in 1..Cardinality(S) |-> Ascending(S)[Cardinality(S) + 1 - i]]}

\* ------------------------------------------------------------------------
\* State
\* ------------------------------------------------------------------------
VARIABLES
    pc,                 \* position of the script
    source_isdir,       \* os.path.isdir(SOURCE_CONFIG_DIR)
    source_items,       \* names of the items in SOURCE_CONFIG_DIR
    source_dirs,        \* those of them that are directories
    docker_projects,    \* names n with a directory DOCKER_REPO_DIR/n
    listing,            \* os.listdir(SOURCE_CONFIG_DIR), in the order returned
    idx,                \* position of the for loop in listing
    copied_count,
    error_count,
    container_stopped,
    retry_successful,
    log,                \* external calls made by backup_configs, in order
    backup_dir,         \* entries of the archive directory (backup_parent_dir)
    max_to_keep,        \* argument of rotate_backups
    files_to_delete,
    del_idx,            \* position of the deletion loop
    rot_log,            \* os.listdir and os.remove calls of rotate_backups, in order
    dir_before,         \* the archive directory when rotate_backups was called
    ret,                \* where rotate_backups returns to
    staging,            \* entries of BACKUP_DEST_DIR: [name, kind]
    archive_items,      \* top-level entries of the archive made by this run
    files_initial,      \* the files of the archive directory when the run started
    past_runs,          \* for each earlier run of the script: how its rotation went
    tv_pc,              \* position of tv_show_analyzer
    verbose,            \* args.verbose
    seasons,            \* the "Season <digits>" folders of the show: their digits
    files_to_organize,  \* keys of the dict files_to_organize while the user is asked
    needs_org,          \* result.needs_org
    season_queue,       \* the season folders analyze_existing_seasons has yet to visit
    season_folder,      \* the season folder being analysed: its digits
    season_num,         \* int(match.group(1)) for that folder
    folder_items,       \* the items of that folder read so far
    episodes,           \* keys of the dict episodes of analyze_single_season_folder
    release_tags,
    inconsistent_tags,  \* what analyze_single_season_folder returned
    hole_description,
    season_inconsistencies,
    season_holes,
    overall_consistent,
    overall_complete,
    empty_folders       \* the folders returned from without a valid episode file

runVars == <<source_isdir, source_items, source_dirs, docker_projects, listing, idx,
             copied_count, error_count, container_stopped, retry_successful, log>>
rotVars == <<max_to_keep, files_to_delete, del_idx, rot_log, dir_before>>
stgVars == <<staging, archive_items, files_initial>>
tvVars == <<tv_pc, verbose, seasons, files_to_organize, needs_org, season_queue,
            season_folder, season_num, folder_items, episodes,
            release_tags, inconsistent_tags, hole_description,
            season_inconsistencies, season_holes, overall_consistent,
            overall_complete, empty_folders>>
backupVars == <<pc, runVars, backup_dir, rotVars, ret, past_runs, stgVars>>
vars == <<backupVars, tvVars>>

\* ------------------------------------------------------------------------
\* Values of tv_show_analyzer.  A Python value that is None, True, a list or
\* a string is a record with a field kind.
\* ------------------------------------------------------------------------
None == [kind |-> "None"]
PyTrue == [kind |-> "True"]
EmptyDict == [k \in {} |-> None]

\* ShowAnalysisResult.__init__, and the analyzer before analyze_show is called
TvIdle ==
    /\ tv_pc = "idle"
    /\ verbose = FALSE
    /\ seasons = {}
    /\ files_to_organize = {}
    /\ needs_org = FALSE
    /\ season_queue = <<>>
    /\ season_folder = <<>>
    /\ season_num = 0
    /\ folder_items = {}
    /\ episodes = {}
    /\ release_tags = {}
    /\ inconsistent_tags = None
    /\ hole_description = None
    /\ season_inconsistencies = EmptyDict
    /\ season_holes = EmptyDict
    /\ overall_consistent = TRUE
    /\ overall_complete = TRUE
    /\ empty_folders = {}

ItemNames == 1..MaxEntries

\* ------------------------------------------------------------------------
\* The staging tree.  An entry of BACKUP_DEST_DIR is [name, kind]:
\*   "old"        a directory that was there before the run,
\*   "stray"      a file that was there before the run,
\*   "fresh"      the complete tree written by a copytree that returned,
\*   "incomplete" what a failed attempt left: part of the tree, nothing, or
\*                what was there when its removal failed.
\* ------------------------------------------------------------------------
Staged(name, kind) == [name |-> name, kind |-> kind]

\* what is at dest_item_path
AtDest(stg, item) == {e \in stg : e.name = item}

\* mutant: the existing destination is not removed and copytree writes into it
CopyTree_IntoExisting(stg, item, ok) ==
    IF ok THEN stg \cup {Staged(item, "fresh")}
    ELSE (stg \ AtDest(stg, item)) \cup {Staged(item, "incomplete")}

\* "if os.path.exists(dest_item_path): rmtree / os.remove" and then
\* shutil.copytree, which needs the destination to be absent
CopyTree(stg, item, ok) ==
    IF ok THEN (stg \ AtDest(stg, item)) \cup {Staged(item, "fresh")}
    ELSE (stg \ AtDest(stg, item)) \cup {Staged(item, "incomplete")}

Event(op, item, res) == [op |-> op, item |-> item, res |-> res]

item_name == listing[idx]

\* ------------------------------------------------------------------------
\* Initial states
\* ------------------------------------------------------------------------
\* the archives present before the run: one per second 1..k
ExistingArchives(k) == {FileEntry(ArchiveName(t)) : t \in 1..k}

\* how many there are: none, or as many as are kept
ExistingCounts == {0, MAX_BACKUPS}

\* the instant of make_archive: before every existing archive, or after
\* every one
ClockValues == {0, MAX_BACKUPS + 2}

RotInit ==
    /\ max_to_keep = MAX_BACKUPS
    /\ files_to_delete = <<>>
    /\ del_idx = 1
    /\ rot_log = <<>>
    /\ dir_before = {}

Init ==
    /\ pc = "check_source"
    /\ source_isdir \in BOOLEAN
    /\ \E n \in 0..MaxEntries :
         source_items = (IF source_isdir THEN 1..n ELSE {})
    /\ source_dirs \in SUBSET source_items
    /\ docker_projects \in SUBSET source_dirs
    /\ listing = <<>>
    /\ idx = 1
    /\ copied_count = 0
    /\ error_count = 0
    /\ container_stopped = FALSE
    /\ retry_successful = FALSE
    /\ log = <<>>
    /\ \E k \in ExistingCounts, staged \in BOOLEAN :
         backup_dir = ExistingArchives(k) \cup (IF staged THEN {StagingEntry} ELSE {})
    /\ RotInit
    /\ ret = "cleanup"
    /\ past_runs = <<>>
    /\ TvIdle
    /\ staging = {}
    /\ archive_items = {}
    /\ files_initial = {e \in backup_dir : e.isfile}

\* ------------------------------------------------------------------------
\* backup_configs, lines 77-88: the run-level preconditions
\* ------------------------------------------------------------------------
CheckSource ==
    /\ pc = "check_source"
    /\ pc' = IF source_isdir THEN "check_dest" ELSE "aborted"
    /\ UNCHANGED <<runVars, backup_dir, rotVars, ret, past_runs, tvVars, stgVars>>

\* mutant: the run goes on when the destination root cannot be created
CheckDest_IgnoresFailure ==
    /\ pc = "check_dest"
    /\ \/ /\ StagingEntry \in backup_dir
          /\ UNCHANGED backup_dir
       \/ /\ StagingEntry \notin backup_dir
          /\ \E ok \in BOOLEAN :
               backup_dir' = IF ok THEN backup_dir \cup {StagingEntry} ELSE backup_dir
    /\ pc' = "listdir"
    /\ UNCHANGED <<source_isdir, source_items, source_dirs, docker_projects, listing, idx,
                   copied_count, error_count, container_stopped, retry_successful, log,
                   rotVars, ret, past_runs, tvVars, stgVars>>

CheckDest ==
    /\ pc = "check_dest"
    /\ \/ /\ StagingEntry \in backup_dir
          /\ pc' = "listdir"
          /\ UNCHANGED <<backup_dir, log>>
       \/ /\ StagingEntry \notin backup_dir
          /\ \E ok \in BOOLEAN :
               /\ backup_dir' = IF ok THEN backup_dir \cup {StagingEntry} ELSE backup_dir
               /\ pc' = IF ok THEN "listdir" ELSE "aborted"
          /\ log' = log
    /\ UNCHANGED <<source_isdir, source_items, source_dirs, docker_projects, listing, idx,
                   copied_count, error_count, container_stopped, retry_successful,
                   rotVars, ret, past_runs, tvVars, stgVars>>

\* ------------------------------------------------------------------------
\* backup_configs, lines 93-181: the loop over the source root
\* ------------------------------------------------------------------------
ListDir ==
    /\ pc = "listdir"
    /\ \/ /\ listing' \in ListingOrders(source_items)
          /\ pc' = "loop"
       \/ /\ listing' = listing
          /\ pc' = "crashed"
    /\ idx' = 1
    /\ UNCHANGED <<source_isdir, source_items, source_dirs, docker_projects,
                   copied_count, error_count, container_stopped, retry_successful, log,
                   backup_dir, rotVars, ret, past_runs, tvVars, stgVars>>

loopFrame == <<source_isdir, source_items, source_dirs, docker_projects, listing,
               backup_dir, rotVars, ret, past_runs, tvVars, archive_items, files_initial>>

\* mutant: an item that is not a directory is counted as an error
NextItem_SkipCountsError ==
    /\ pc = "loop"
    /\ \/ /\ idx > Len(listing)
          /\ pc' = "summary"
          /\ UNCHANGED <<idx, error_count>>
       \/ /\ idx <= Len(listing)
          /\ item_name \in source_dirs
          /\ pc' = "copy"
          /\ UNCHANGED <<idx, error_count>>
       \/ /\ idx <= Len(listing)
          /\ item_name \notin source_dirs
          /\ pc' = "loop"
          /\ idx' = idx + 1
          /\ error_count' = error_count + 1
    /\ UNCHANGED <<loopFrame, copied_count, container_stopped,
                   retry_successful, log, staging>>

NextItem ==
    /\ pc = "loop"
    /\ \/ /\ idx > Len(listing)
          /\ pc' = "summary"
          /\ idx' = idx
       \/ /\ idx <= Len(listing)
          /\ item_name \in source_dirs
          /\ pc' = "copy"
          /\ idx' = idx
       \/ /\ idx <= Len(listing)
          /\ item_name \notin source_dirs
          /\ pc' = "loop"
          /\ idx' = idx + 1
    /\ UNCHANGED <<loopFrame, copied_count, error_count, container_stopped,
                   retry_successful, log, staging>>

\* mutant: the directory is moved into the staging tree instead of copied
InitialCopy_MovesSource ==
    /\ pc = "copy"
    /\ \E res \in {"ok", "partial", "fatal", "other"} :
         /\ staging' = CopyTree(staging, item_name, res = "ok")
         /\ log' = Append(log, Event("copy", item_name, res))
         /\ IF res = "ok"
            THEN /\ copied_count' = copied_count + 1
                 /\ error_count' = error_count
                 /\ idx' = idx + 1
                 /\ pc' = "loop"
                 /\ source_items' = source_items \ {item_name}
                 /\ source_dirs' = source_dirs \ {item_name}
                 /\ UNCHANGED <<container_stopped, retry_successful>>
            ELSE IF res = "other"
            THEN /\ pc' = "crashed"
                 /\ UNCHANGED <<copied_count, error_count, idx, container_stopped,
                                retry_successful, source_items, source_dirs>>
            ELSE /\ container_stopped' = FALSE
                 /\ retry_successful' = FALSE
                 /\ copied_count' = copied_count
                 /\ UNCHANGED <<source_items, source_dirs>>
                 /\ IF AfterInitialFailure(item_name, docker_projects) = "stop"
                    THEN /\ pc' = "stop"
                         /\ UNCHANGED <<error_count, idx>>
                    ELSE /\ error_count' = error_count + 1
                         /\ idx' = idx + 1
                         /\ pc' = "loop"
    /\ UNCHANGED <<source_isdir, docker_projects, listing, backup_dir, rotVars, ret, past_runs, tvVars,
                   archive_items, files_initial>>

\* the initial copy: the source tree is only read (os.path.isdir, copytree's
\* src); what the script removes and writes is under BACKUP_DEST_DIR.  The
\* copy returns ("ok"), raises shutil.Error ("partial"), raises another
\* OSError ("fatal"), or raises an exception that "except (shutil.Error,
\* OSError)" does not catch, such as the RecursionError of a very deep tree
\* ("other"): that one leaves backup_configs and ends the process
InitialCopy ==
    /\ pc = "copy"
    /\ \E res \in {"ok", "partial", "fatal", "other"} :
         /\ staging' = CopyTree(staging, item_name, res = "ok")
         /\ log' = Append(log, Event("copy", item_name, res))
         /\ IF res = "ok"
            THEN /\ copied_count' = copied_count + 1
                 /\ error_count' = error_count
                 /\ idx' = idx + 1
                 /\ pc' = "loop"
                 /\ UNCHANGED <<container_stopped, retry_successful>>
            ELSE IF res = "other"
            THEN /\ pc' = "crashed"
                 /\ UNCHANGED <<copied_count, error_count, idx, container_stopped,
                                retry_successful>>
            ELSE /\ container_stopped' = FALSE
                 /\ retry_successful' = FALSE
                 /\ copied_count' = copied_count
                 /\ IF AfterInitialFailure(item_name, docker_projects) = "stop"
                    THEN /\ pc' = "stop"
                         /\ UNCHANGED <<error_count, idx>>
                    ELSE /\ error_count' = error_count + 1
                         /\ idx' = idx + 1
                         /\ pc' = "loop"
    /\ UNCHANGED loopFrame

StopContainer ==
    /\ pc = "stop"
    /\ \E ok \in BOOLEAN :
         /\ log' = Append(log, Event("stop", item_name, IF ok THEN "ok" ELSE "fail"))
         /\ container_stopped' = ok
         /\ pc' = AfterStop(ok)
    /\ UNCHANGED <<loopFrame, idx, copied_count, error_count, retry_successful, staging>>

Wait ==
    /\ pc = "wait"
    /\ log' = Append(log, Event("sleep", item_name, "ok"))
    /\ pc' = "retry"
    /\ UNCHANGED <<loopFrame, idx, copied_count, error_count, container_stopped,
                   retry_successful, staging>>

\* mutant: a retry that succeeded is not counted
RetryCopy_SuccessNotCounted ==
    /\ pc = "retry"
    /\ \E res \in {"ok", "fail", "other"} :
         /\ staging' = CopyTree(staging, item_name, res = "ok")
         /\ log' = Append(log, Event("retry", item_name, res))
         /\ IF res = "ok"
            THEN /\ retry_successful' = TRUE
                 /\ pc' = "start"
                 /\ UNCHANGED <<copied_count, error_count>>
            ELSE IF res = "other"
            THEN /\ pc' = "crashed"
                 /\ UNCHANGED <<copied_count, error_count, retry_successful>>
            ELSE /\ error_count' = error_count + 1
                 /\ pc' = "start"
                 /\ UNCHANGED <<copied_count, retry_successful>>
    /\ UNCHANGED <<loopFrame, idx, container_stopped>>

\* the retry after a successful stop: it returns ("ok"), raises shutil.Error
\* or another OSError ("fail"), or raises an exception that "except
\* (shutil.Error, OSError)" does not catch ("other"): that one leaves
\* backup_configs before the restart block and ends the process
RetryCopy ==
    /\ pc = "retry"
    /\ \E res \in {"ok", "fail", "other"} :
         /\ staging' = CopyTree(staging, item_name, res = "ok")
         /\ log' = Append(log, Event("retry", item_name, res))
         /\ IF res = "ok"
            THEN /\ copied_count' = copied_count + 1
                 /\ retry_successful' = TRUE
                 /\ error_count' = error_count
                 /\ pc' = "start"
            ELSE IF res = "other"
            THEN /\ pc' = "crashed"
                 /\ UNCHANGED <<copied_count, error_count, retry_successful>>
            ELSE /\ error_count' = error_count + 1
                 /\ pc' = "start"
                 /\ UNCHANGED <<copied_count, retry_successful>>
    /\ UNCHANGED <<loopFrame, idx, container_stopped>>

\* mutant: the loop moves on without the restart
StartContainer_LeftStopped ==
    /\ pc = "start"
    /\ idx' = idx + 1
    /\ pc' = "loop"
    /\ UNCHANGED <<loopFrame, copied_count, error_count, container_stopped,
                   retry_successful, staging, log>>

StartContainer ==
    /\ pc = "start"
    /\ \E ok \in BOOLEAN :
         log' = Append(log, Event("start", item_name, IF ok THEN "ok" ELSE "fail"))
    /\ idx' = idx + 1
    /\ pc' = "loop"
    /\ UNCHANGED <<loopFrame, copied_count, error_count, container_stopped,
                   retry_successful, staging>>

\* ------------------------------------------------------------------------
\* backup_configs, lines 183-233: summary, archive, rotation, cleanup
\* ------------------------------------------------------------------------
Summary ==
    /\ pc = "summary"
    /\ pc' = IF SomethingAttempted(copied_count, error_count) THEN "zip" ELSE "finished"
    /\ UNCHANGED <<runVars, backup_dir, rotVars, ret, past_runs, tvVars, stgVars>>

\* mutant: a failed make_archive is followed by the removal of the staging tree
MakeArchive_CleansUpOnFailure ==
    /\ pc = "zip"
    /\ \E ok \in BOOLEAN, now \in ClockValues, written \in BOOLEAN :
         /\ log' = Append(log, Event("make_archive", now, IF ok THEN "ok" ELSE "fail"))
         /\ backup_dir' = IF ok \/ written
                          THEN backup_dir \cup {FileEntry(ArchiveName(now))}
                          ELSE backup_dir
         /\ archive_items' = IF ok THEN staging ELSE archive_items
         /\ pc' = IF ok THEN "rot_list" ELSE "cleanup"
    /\ UNCHANGED <<source_isdir, source_items, source_dirs, docker_projects, listing, idx,
                   copied_count, error_count, container_stopped, retry_successful,
                   rotVars, ret, past_runs, tvVars, staging, files_initial>>

\* shutil.make_archive at an instant now of the clock; an archive of the same
\* second is overwritten.  make_archive opens the zip file and then writes
\* the tree into it: when it raises, the file may already be there
\* (written), and nothing removes it
MakeArchive ==
    /\ pc = "zip"
    /\ \E ok \in BOOLEAN, now \in ClockValues, written \in BOOLEAN :
         /\ log' = Append(log, Event("make_archive", now, IF ok THEN "ok" ELSE "fail"))
         /\ backup_dir' = IF ok \/ written
                          THEN backup_dir \cup {FileEntry(ArchiveName(now))}
                          ELSE backup_dir
         /\ archive_items' = IF ok THEN staging ELSE archive_items
         /\ pc' = IF ok THEN "rot_list" ELSE "finished"
    /\ UNCHANGED <<source_isdir, source_items, source_dirs, docker_projects, listing, idx,
                   copied_count, error_count, container_stopped, retry_successful,
                   rotVars, ret, past_runs, tvVars, staging, files_initial>>

\* what a rmtree of the staging tree that raised can leave of it
PartlyRemoved(stg) ==
    UNION { {stg \ R} \cup
            { ((stg \ R) \ {e}) \cup {Staged(e.name, "incomplete")} :
                  e \in {x \in stg \ R : x.kind # "stray"} } :
            R \in SUBSET stg }

\* mutant: the staging tree is never removed
Cleanup_LeavesStaging ==
    /\ pc = "cleanup"
    /\ \E ok \in BOOLEAN :
         log' = Append(log, Event("rmtree_staging", 0, IF ok THEN "ok" ELSE "fail"))
    /\ pc' = "finished"
    /\ UNCHANGED <<source_isdir, source_items, source_dirs, docker_projects, listing, idx,
                   copied_count, error_count, container_stopped, retry_successful,
                   backup_dir, rotVars, ret, past_runs, tvVars, stgVars>>

\* shutil.rmtree(BACKUP_DEST_DIR); an OSError is logged and the run goes on.
\* A rmtree that raises has removed what it visited before the error: some
\* entries are gone, at most one directory is partly removed, and
\* BACKUP_DEST_DIR itself is still there
Cleanup ==
    /\ pc = "cleanup"
    /\ \/ /\ log' = Append(log, Event("rmtree_staging", 0, "ok"))
          /\ backup_dir' = backup_dir \ {StagingEntry}
          /\ staging' = {}
       \/ /\ log' = Append(log, Event("rmtree_staging", 0, "fail"))
          /\ backup_dir' = backup_dir
          /\ staging' \in PartlyRemoved(staging)
    /\ pc' = "finished"
    /\ UNCHANGED <<source_isdir, source_items, source_dirs, docker_projects, listing, idx,
                   copied_count, error_count, container_stopped, retry_successful,
                   rotVars, ret, past_runs, tvVars, archive_items, files_initial>>

\* ------------------------------------------------------------------------
\* rotate_backups, lines 34-68
\* ------------------------------------------------------------------------
RotEvent(op, name, ok) == [op |-> op, name |-> name, ok |-> ok]

\* lines 37-55 and 65-68: list, filter, early return, sort, slice; a listing
\* that raises ends the rotation
\* mutant: a listing that raises ends the run without the cleanup
RotList_FailureEndsRun ==
    /\ pc = "rot_list"
    /\ dir_before' = backup_dir
    /\ \/ /\ files_to_delete' = <<>>
          /\ pc' = "finished"
          /\ rot_log' = Append(rot_log, RotEvent("listdir", <<>>, FALSE))
       \/ /\ IF NoRotationNeeded(BackupFiles(backup_dir), max_to_keep)
             THEN /\ files_to_delete' = <<>>
                  /\ pc' = ret
             ELSE /\ files_to_delete' = FilesToDelete(BackupFiles(backup_dir), max_to_keep)
                  /\ pc' = "rot_delete"
          /\ rot_log' = Append(rot_log, RotEvent("listdir", <<>>, TRUE))
    /\ del_idx' = 1
    /\ UNCHANGED <<runVars, backup_dir, max_to_keep, ret, past_runs, tvVars, stgVars>>

RotList ==
    /\ pc = "rot_list"
    /\ dir_before' = backup_dir
    /\ \/ /\ files_to_delete' = <<>>
          /\ pc' = ret
          /\ rot_log' = Append(rot_log, RotEvent("listdir", <<>>, FALSE))
       \/ /\ IF NoRotationNeeded(BackupFiles(backup_dir), max_to_keep)
             THEN /\ files_to_delete' = <<>>
                  /\ pc' = ret
             ELSE /\ files_to_delete' = FilesToDelete(BackupFiles(backup_dir), max_to_keep)
                  /\ pc' = "rot_delete"
          /\ rot_log' = Append(rot_log, RotEvent("listdir", <<>>, TRUE))
    /\ del_idx' = 1
    /\ UNCHANGED <<runVars, backup_dir, max_to_keep, ret, past_runs, tvVars, stgVars>>

\* mutant: a failed os.remove ends the deletion loop
RotDelete_StopsAtFailure ==
    /\ pc = "rot_delete"
    /\ IF del_idx > Len(files_to_delete)
       THEN /\ pc' = ret
            /\ UNCHANGED <<backup_dir, rot_log, del_idx>>
       ELSE \E ok \in BOOLEAN :
              /\ rot_log' = Append(rot_log, RotEvent("remove", files_to_delete[del_idx], ok))
              /\ backup_dir' = IF ok
                               THEN backup_dir \ {FileEntry(files_to_delete[del_idx])}
                               ELSE backup_dir
              /\ del_idx' = del_idx + 1
              /\ pc' = IF ok THEN pc ELSE ret
    /\ UNCHANGED <<runVars, max_to_keep, files_to_delete, dir_before, ret, past_runs, tvVars, stgVars>>

\* lines 57-63: one iteration of the deletion loop
RotDelete ==
    /\ pc = "rot_delete"
    /\ IF del_idx > Len(files_to_delete)
       THEN /\ pc' = ret
            /\ UNCHANGED <<backup_dir, rot_log, del_idx>>
       ELSE \E ok \in BOOLEAN :
              /\ rot_log' = Append(rot_log, RotEvent("remove", files_to_delete[del_idx], ok))
              /\ backup_dir' = IF ok
                               THEN backup_dir \ {FileEntry(files_to_delete[del_idx])}
                               ELSE backup_dir
              /\ del_idx' = del_idx + 1
              /\ pc' = pc
    /\ UNCHANGED <<runVars, max_to_keep, files_to_delete, dir_before, ret, past_runs, tvVars, stgVars>>

Next ==
    \/ CheckSource
    \/ CheckDest
    \/ ListDir
    \/ NextItem
    \/ InitialCopy
    \/ StopContainer
    \/ Wait
    \/ RetryCopy
    \/ StartContainer
    \/ Summary
    \/ MakeArchive
    \/ RotList
    \/ RotDelete
    \/ Cleanup

Spec == Init /\ [][Next]_vars

\* ------------------------------------------------------------------------
\* src/backup_docker_configs.py, the older variant of the script: the same
\* checks, loop, archive and cleanup, but a failed copy is only counted (no
\* stop, retry or start) and there is no rotate_backups.  Its positions are
\* named old_...
\* ------------------------------------------------------------------------
\* what the older variant never changes
oldFrame == <<source_isdir, source_items, source_dirs, docker_projects,
              container_stopped, retry_successful, rotVars, ret, past_runs, tvVars,
              files_initial>>

OldCheckSource ==
    /\ pc = "old_check_source"
    /\ pc' = IF source_isdir THEN "old_check_dest" ELSE "old_aborted"
    /\ UNCHANGED <<oldFrame, listing, idx, copied_count, error_count, log, backup_dir,
                   staging, archive_items>>

OldCheckDest ==
    /\ pc = "old_check_dest"
    /\ \/ /\ StagingEntry \in backup_dir
          /\ pc' = "old_listdir"
          /\ UNCHANGED backup_dir
       \/ /\ StagingEntry \notin backup_dir
          /\ \E ok \in BOOLEAN :
               /\ backup_dir' = IF ok THEN backup_dir \cup {StagingEntry} ELSE backup_dir
               /\ pc' = IF ok THEN "old_listdir" ELSE "old_aborted"
    /\ UNCHANGED <<oldFrame, listing, idx, copied_count, error_count, log,
                   staging, archive_items>>

OldListDir ==
    /\ pc = "old_listdir"
    /\ \/ /\ listing' \in ListingOrders(source_items)
          /\ pc' = "old_loop"
       \/ /\ listing' = listing
          /\ pc' = "old_crashed"
    /\ idx' = 1
    /\ UNCHANGED <<oldFrame, copied_count, error_count, log, backup_dir,
                   staging, archive_items>>

OldNextItem ==
    /\ pc = "old_loop"
    /\ \/ /\ idx > Len(listing)
          /\ pc' = "old_summary"
          /\ idx' = idx
       \/ /\ idx <= Len(listing)
          /\ item_name \in source_dirs
          /\ pc' = "old_copy"
          /\ idx' = idx
       \/ /\ idx <= Len(listing)
          /\ item_name \notin source_dirs
          /\ pc' = "old_loop"
          /\ idx' = idx + 1
    /\ UNCHANGED <<oldFrame, listing, copied_count, error_count, log, backup_dir,
                   staging, archive_items>>

\* lines 56-86: the copy returns, raises shutil.Error ("partial") or another
\* OSError ("fatal"), both counted as an error, or raises an exception that
\* neither handler catches ("other")
OldInitialCopy ==
    /\ pc = "old_copy"
    /\ \E res \in {"ok", "partial", "fatal", "other"} :
         /\ staging' = CopyTree(staging, item_name, res = "ok")
         /\ log' = Append(log, Event("copy", item_name, res))
         /\ copied_count' = IF res = "ok" THEN copied_count + 1 ELSE copied_count
         /\ error_count' = IF res \in {"partial", "fatal"} THEN error_count + 1
                           ELSE error_count
         /\ idx' = IF res = "other" THEN idx ELSE idx + 1
         /\ pc' = IF res = "other" THEN "old_crashed" ELSE "old_loop"
    /\ UNCHANGED <<oldFrame, listing, backup_dir, archive_items>>

OldSummary ==
    /\ pc = "old_summary"
    /\ pc' = IF SomethingAttempted(copied_count, error_count) THEN "old_zip"
             ELSE "old_finished"
    /\ UNCHANGED <<oldFrame, listing, idx, copied_count, error_count, log, backup_dir,
                   staging, archive_items>>

\* lines 98-116 and 126-127: after make_archive comes the cleanup, with no
\* rotation in between
OldMakeArchive ==
    /\ pc = "old_zip"
    /\ \E ok \in BOOLEAN, now \in ClockValues, written \in BOOLEAN :
         /\ log' = Append(log, Event("make_archive", now, IF ok THEN "ok" ELSE "fail"))
         /\ backup_dir' = IF ok \/ written
                          THEN backup_dir \cup {FileEntry(ArchiveName(now))}
                          ELSE backup_dir
         /\ archive_items' = IF ok THEN staging ELSE archive_items
         /\ pc' = IF ok THEN "old_cleanup" ELSE "old_finished"
    /\ UNCHANGED <<oldFrame, listing, idx, copied_count, error_count, staging>>

OldCleanup ==
    /\ pc = "old_cleanup"
    /\ \/ /\ log' = Append(log, Event("rmtree_staging", 0, "ok"))
          /\ backup_dir' = backup_dir \ {StagingEntry}
          /\ staging' = {}
       \/ /\ log' = Append(log, Event("rmtree_staging", 0, "fail"))
          /\ backup_dir' = backup_dir
          /\ staging' \in PartlyRemoved(staging)
    /\ pc' = "old_finished"
    /\ UNCHANGED <<oldFrame, listing, idx, copied_count, error_count, archive_items>>

\* the older variant has no DOCKER_REPO_DIR
InitOld ==
    /\ pc = "old_check_source"
    /\ source_isdir \in BOOLEAN
    /\ \E n \in 0..MaxEntries :
         source_items = (IF source_isdir THEN 1..n ELSE {})
    /\ source_dirs \in SUBSET source_items
    /\ docker_projects = {}
    /\ listing = <<>>
    /\ idx = 1
    /\ copied_count = 0
    /\ error_count = 0
    /\ container_stopped = FALSE
    /\ retry_successful = FALSE
    /\ log = <<>>
    /\ \E k \in ExistingCounts, staged \in BOOLEAN :
         backup_dir = ExistingArchives(k) \cup (IF staged THEN {StagingEntry} ELSE {})
    /\ RotInit
    /\ ret = "cleanup"
    /\ past_runs = <<>>
    /\ TvIdle
    /\ staging = {}
    /\ archive_items = {}
    /\ files_initial = {e \in backup_dir : e.isfile}

NextOld ==
    \/ OldCheckSource
    \/ OldCheckDest
    \/ OldListDir
    \/ OldNextItem
    \/ OldInitialCopy
    \/ OldSummary
    \/ OldMakeArchive
    \/ OldCleanup

SpecOld == InitOld /\ [][NextOld]_vars

\* a run of either variant of the script
SpecBoth == (Init \/ InitOld) /\ [][Next \/ NextOld]_vars

\* "if __name__ == '__main__': print(...); backup_configs()": the status the
\* process ends with once backup_configs has been called.  The text printed
\* before the call stays in the buffer of standard output until the
\* interpreter exits; flushed tells whether that last write succeeds.  When
\* it fails (a full device, a pipe without reader) the interpreter exits
\* with 120, however backup_configs ended; otherwise with 0 when
\* backup_configs returned (sys.exit is never called) and with 1 when an
\* exception left it.
ExitStatus(flushed) ==
    IF ~flushed THEN 120
    ELSE IF pc = "crashed" THEN 1 ELSE 0

\* The script is sequential and every external call returns: a run that can
\* take a step takes it.  The runs start with MAX_BACKUPS older archives, so
\* that rotate_backups has a file to delete.
InitFair == Init /\ Cardinality(files_initial) = MAX_BACKUPS

FairSpec == InitFair /\ [][Next]_vars /\ WF_vars(Next)

\* ------------------------------------------------------------------------
\* Runs that start with the staging tree of an earlier run still in place
\* (its make_archive or its rmtree failed): entry 0 was staged from a
\* directory that is no longer in the source root, entry 1 is the old copy
\* of a directory, and a file has the name of entry 2.  The source root
\* holds the items 1..n of these names.  Without a staging directory there
\* are no leftovers.
\* ------------------------------------------------------------------------
Leftovers ==
    { {Staged(0, "old"), Staged(1, "old"), Staged(2, "stray")} }

InitLeftover ==
    /\ pc = "check_source"
    /\ source_isdir = TRUE
    /\ \E n \in 0..2 : source_items = 1..n
    /\ source_dirs \in SUBSET source_items
    /\ docker_projects \in SUBSET source_dirs
    /\ listing = <<>>
    /\ idx = 1
    /\ copied_count = 0
    /\ error_count = 0
    /\ container_stopped = FALSE
    /\ retry_successful = FALSE
    /\ log = <<>>
    /\ \E staged \in BOOLEAN :
         /\ backup_dir = ExistingArchives(MAX_BACKUPS)
                            \cup (IF staged THEN {StagingEntry} ELSE {})
         /\ staging \in (IF staged THEN Leftovers ELSE {{}})
    /\ RotInit
    /\ ret = "cleanup"
    /\ past_runs = <<>>
    /\ TvIdle
    /\ archive_items = {}
    /\ files_initial = {e \in backup_dir : e.isfile}

SpecLeftover == InitLeftover /\ [][Next]_vars

\* ------------------------------------------------------------------------
\* rotate_backups(backup_dir, max_to_keep) called on its own
\* ------------------------------------------------------------------------
\* "docker_configs_backup_.zip" and "docker_configs_backup_9.zip": matching
\* names that are no timestamps
ShortestArchive == ArchivePrefix \o ArchiveSuffix
OddArchive == ArchivePrefix \o <<57>> \o ArchiveSuffix
\* "docker_configs_backup_<timestamp>.tar" and "n.zip": half-matching names
TarName == ArchivePrefix \o Timestamp(7) \o <<46,116,97,114>>
OtherZip == <<110>> \o ArchiveSuffix

RotUniverse ==
    { FileEntry(ArchiveName(5)), FileEntry(ArchiveName(59)), FileEntry(ArchiveName(60)),
      FileEntry(ShortestArchive), FileEntry(OddArchive),
      FileEntry(TarName), FileEntry(OtherZip),
      StagingEntry, DirEntry(ArchiveName(1)) }

InitRotate ==
    /\ pc = "rot_list"
    /\ ret = "rot_done"
    /\ past_runs = <<>>
    /\ TvIdle
    /\ backup_dir \in SUBSET RotUniverse
    /\ max_to_keep \in 0..MaxKeep
    /\ files_to_delete = <<>>
    /\ del_idx = 1
    /\ rot_log = <<>>
    /\ dir_before = backup_dir
    /\ source_isdir = FALSE
    /\ source_items = {}
    /\ source_dirs = {}
    /\ docker_projects = {}
    /\ listing = <<>>
    /\ idx = 1
    /\ copied_count = 0
    /\ error_count = 0
    /\ container_stopped = FALSE
    /\ retry_successful = FALSE
    /\ log = <<>>
    /\ staging = {}
    /\ archive_items = {}
    /\ files_initial = {e \in backup_dir : e.isfile}

NextRotate ==
    \/ RotList
    \/ RotDelete

SpecRotate == InitRotate /\ [][NextRotate]_vars

\* ========================================================================
\* Properties of backup_configs (checked under Spec)
\* ========================================================================
LogIdx == 1..Len(log)
Last(s) == s[Len(s)]
\* the positions of the script after the loop over the source root has ended
AfterLoop == {"summary", "zip", "rot_list", "rot_delete", "cleanup", "finished"}
RecoveryOps == {"stop", "sleep", "retry", "start"}
Is(i, op, item) == log[i].op = op /\ log[i].item = item

\* C1: every stop attempted for an entry is followed by a start attempt for
\* the same entry before any other entry is touched, whatever the stop and
\* the retried copy returned; until that start, the script is still inside
\* the recovery of that entry.
C1_RestartAlwaysAttempted ==
    \A i \in LogIdx : log[i].op = "stop" =>
        LET it == log[i].item
            starts == {j \in LogIdx : j > i /\ Is(j, "start", it)}
        IN  IF starts # {}
            THEN LET j == CHOOSE x \in starts : \A y \in starts : x <= y
                 IN  \A k \in (i + 1)..(j - 1) :
                        log[k].op \in {"sleep", "retry"} /\ log[k].item = it
            ELSE /\ pc \in {"wait", "retry", "start"}
                 /\ idx <= Len(listing)
                 /\ item_name = it
                 /\ \A k \in (i + 1)..Len(log) :
                        log[k].op \in {"sleep", "retry"} /\ log[k].item = it

\* C2: when the loop has ended, copied_count + error_count is the number of
\* top-level directories of the source root.
C2_OneResultPerDirectory ==
    pc \in AfterLoop => copied_count + error_count = Cardinality(source_dirs)

\* C3: in a run that passed both checks and finished, the archive was
\* attempted if and only if some top-level directory was attempted.
C3_ArchiveIffAttempted ==
    pc = "finished" =>
        ((\E i \in LogIdx : log[i].op = "make_archive")
            <=> (\E i \in LogIdx : log[i].op = "copy"))

\* C4: after an initial copy that failed fatally there is no stop, wait,
\* retry or start for the entry, and the entry is counted as failed.
C4_NoRecoveryAfterFatal ==
    /\ \A i \in LogIdx : (log[i].op = "copy" /\ log[i].res = "fatal") =>
         (i < Len(log) => log[i + 1].op \notin RecoveryOps)
    /\ pc \in AfterLoop =>
         Cardinality({i \in LogIdx : log[i].op = "copy" /\ log[i].res = "fatal"})
             <= error_count

\* no stop and no start was ever issued for an unmanaged entry
NoServiceCallForUnmanaged ==
    \A i \in LogIdx :
        log[i].op \in {"stop", "start"} => log[i].item \in docker_projects

\* C5: a partial failure of the initial copy of an entry without project
\* directory adds exactly one to error_count, leaves copied_count alone and
\* goes on to the next item; stop and start are never invoked for such an
\* entry.
C5_UnmanagedPartialFailure ==
    [][ /\ ( ( /\ pc = "copy"
               /\ item_name \notin docker_projects
               /\ log' = Append(log, Event("copy", item_name, "partial")) )
             => ( /\ error_count' = error_count + 1
                  /\ copied_count' = copied_count
                  /\ pc' = "loop"
                  /\ idx' = idx + 1 ) )
        /\ NoServiceCallForUnmanaged' ]_vars

\* the initial copy of an unmanaged entry has just failed partially
C5_Witness ==
    /\ pc = "loop"
    /\ log # <<>>
    /\ Last(log).op = "copy" /\ Last(log).res = "partial"
    /\ Last(log).item \notin docker_projects
    /\ error_count >= 1

\* C6: every directory the loop has passed got its initial copy attempt, the
\* loop ends only past the last item of the listing, and once an entry was
\* attempted the run never stops short of the end of the loop.
C6_EveryDirectoryAttempted ==
    /\ \A j \in 1..Len(listing) :
         (listing[j] \in source_dirs /\ (j < idx \/ pc \in AfterLoop))
            => \E i \in LogIdx : Is(i, "copy", listing[j])
    /\ pc \in AfterLoop =>
         /\ idx = Len(listing) + 1
         /\ {listing[j] : j \in 1..Len(listing)} = source_items
    /\ pc \in {"crashed", "aborted"} => \A i \in LogIdx : log[i].op # "copy"

\* C7: the recovery of an entry is stop, then (only after a successful stop)
\* sleep and retry, then start; a failed stop is followed by the start alone;
\* a stop is issued only after a failed initial copy of a managed entry.
C7_WaitAndRetryIffStopped ==
    \A i \in LogIdx :
        LET it == log[i].item
            last == (i = Len(log))
        IN
        /\ log[i].op = "stop" =>
             /\ i > 1
             /\ Is(i - 1, "copy", it) /\ log[i - 1].res # "ok"
             /\ it \in docker_projects
             /\ IF log[i].res = "ok"
                THEN IF last THEN pc = "wait" ELSE Is(i + 1, "sleep", it)
                ELSE IF last THEN pc = "start" ELSE Is(i + 1, "start", it)
        /\ log[i].op = "sleep" =>
             /\ i > 1
             /\ log[i - 1] = Event("stop", it, "ok")
             /\ IF last THEN pc = "retry" ELSE Is(i + 1, "retry", it)
        /\ log[i].op = "retry" =>
             /\ i > 1
             /\ Is(i - 1, "sleep", it)
             /\ IF last THEN pc = "start" ELSE Is(i + 1, "start", it)
        /\ log[i].op = "start" =>
             /\ i > 1
             /\ \/ Is(i - 1, "retry", it)
                \/ log[i - 1] = Event("stop", it, "fail")

\* the directories whose initial copy or retry copy succeeded
SucceededDirs ==
    {d \in source_dirs :
        \E i \in LogIdx : log[i].op \in {"copy", "retry"} /\ log[i].item = d
                          /\ log[i].res = "ok"}

\* C8: after the loop copied_count counts exactly the directories whose
\* initial or retry copy succeeded and error_count every other directory.
C8_OutcomeMapping ==
    pc \in AfterLoop =>
        /\ copied_count = Cardinality(SucceededDirs)
        /\ error_count = Cardinality(source_dirs \ SucceededDirs)

\* ========================================================================
\* Properties of rotate_backups (checked under SpecRotate)
\* ========================================================================
RotIdx == 1..Len(rot_log)
Matching(D) == {e \in D : e.isfile /\ StartsWith(e.name, ArchivePrefix)
                                   /\ EndsWith(e.name, ArchiveSuffix)}
\* the matching archives of D that are not among the keep largest names
NotAmongNewest(D, keep) ==
    {e \in Matching(D) :
        Cardinality({f \in Matching(D) : LexLess(e.name, f.name)}) >= keep}
Listed == rot_log # <<>> /\ rot_log[1].op = "listdir" /\ rot_log[1].ok
Removals == {i \in RotIdx : rot_log[i].op = "remove"}

\* C9: with max_to_keep >= 1, a directory that could be listed and every
\* deletion succeeding, rotate_backups returns having deleted exactly the
\* matching archives that are not among the max_to_keep largest names; with
\* at most max_to_keep matching archives it deletes and attempts nothing.
C9_RotateKeepsNewest ==
    ( /\ pc = "rot_done"
      /\ max_to_keep >= 1
      /\ Listed
      /\ \A i \in Removals : rot_log[i].ok )
    => /\ backup_dir \subseteq dir_before
       /\ dir_before \ backup_dir = NotAmongNewest(dir_before, max_to_keep)
       /\ Cardinality(Matching(dir_before)) <= max_to_keep =>
            (backup_dir = dir_before /\ Removals = {})

\* a rotation that deleted two or more archives, kept at least two and left
\* a file that is no archive and a directory alone
C9_Witness ==
    /\ pc = "rot_done"
    /\ max_to_keep >= 2
    /\ Listed
    /\ Cardinality(Removals) >= 2
    /\ \A i \in Removals : rot_log[i].ok
    /\ \E e \in backup_dir : e.isfile /\ e \notin Matching(backup_dir)
    /\ \E e \in backup_dir : ~e.isfile

\* C10: when rotate_backups returns after listing the directory, os.remove
\* was attempted once for every file selected for deletion, in order,
\* whichever attempts failed; a file is gone exactly if its removal
\* succeeded.
C10_DeletionFailureIsolated ==
    (pc = "rot_done" /\ Listed) =>
        /\ Len(rot_log) = Len(files_to_delete) + 1
        /\ \A k \in 1..Len(files_to_delete) :
             /\ rot_log[k + 1].op = "remove"
             /\ rot_log[k + 1].name = files_to_delete[k]
             /\ rot_log[k + 1].ok <=> FileEntry(files_to_delete[k]) \notin backup_dir
        /\ max_to_keep >= 1 =>
             {FileEntry(files_to_delete[k]) : k \in 1..Len(files_to_delete)}
                 = NotAmongNewest(dir_before, max_to_keep)

\* a rotation in which a removal failed and a later one succeeded
C10_Witness ==
    /\ pc = "rot_done"
    /\ \E i, j \in Removals :
         /\ i < j
         /\ ~rot_log[i].ok
         /\ rot_log[j].ok
         /\ FileEntry(rot_log[i].name) \in backup_dir
         /\ FileEntry(rot_log[j].name) \notin backup_dir

\* ------------------------------------------------------------------------
\* The archive, the staging tree and the end of the run
\* ------------------------------------------------------------------------
ArchiveEvents == {i \in LogIdx : log[i].op = "make_archive"}
ArchiveCreated == \E i \in ArchiveEvents : log[i].res = "ok"
ArchiveFailed == \E i \in ArchiveEvents : log[i].res = "fail"
FilesOf(D) == {e \in D : e.isfile}
\* the top-level directories whose copy was attempted
AttemptedDirs == {log[i].item : i \in {j \in LogIdx : log[j].op = "copy"}}

\* C11: when make_archive has failed, the run ends with the staging
\* directory still in the archive directory and holding an entry for every
\* directory it attempted, rotate_backups was not entered, and every file
\* that was in the archive directory at the start of the run is still there.
C11_FailedArchiveLeavesStaging ==
    ArchiveFailed =>
        /\ pc = "finished"
        /\ StagingEntry \in backup_dir
        /\ {e.name : e \in staging} = AttemptedDirs
        /\ \A d \in SucceededDirs : Staged(d, "fresh") \in staging
        /\ rot_log = <<>>
        /\ dir_before = {}
        /\ files_initial \subseteq FilesOf(backup_dir)
        /\ archive_items = {}

\* a run over two directories, with a full set of older archives, whose
\* make_archive failed
C11_Witness ==
    /\ pc = "finished"
    /\ ArchiveFailed
    /\ Cardinality(AttemptedDirs) = 2
    /\ Cardinality(files_initial) = MAX_BACKUPS
    /\ \E e \in staging : e.kind = "fresh"

\* C12 as stated: when the run has finished and its archive was created,
\* the staging directory is no longer in the archive directory.
C12_StagingDeletedAfterArchive ==
    (pc = "finished" /\ ArchiveCreated) => StagingEntry \notin backup_dir

CleanupEvents == {i \in LogIdx : log[i].op = "rmtree_staging"}

\* C12: the removal of the staging tree is attempted exactly in the runs
\* whose archive was created, once, as the last step after rotate_backups;
\* when the run has finished the staging directory is gone if and only if
\* that removal succeeded, and a removal that failed left the directory
\* with no entry other than those that were archived.
C12_StagingRemovalAttempted ==
    /\ CleanupEvents # {} => (ArchiveCreated /\ pc = "finished")
    /\ (pc = "finished" /\ ArchiveCreated) =>
          /\ CleanupEvents = {Len(log)}
          /\ log[Len(log) - 1].op = "make_archive"
          /\ Last(log).res = "ok" <=> StagingEntry \notin backup_dir
          /\ Last(log).res = "ok" => staging = {}
          /\ Last(log).res = "fail" =>
                {e.name : e \in staging} \subseteq {e.name : e \in archive_items}

\* a finished run whose archive was created, whose rotation removed an older
\* archive and whose staging tree was removed
C12_Witness ==
    /\ pc = "finished"
    /\ ArchiveCreated
    /\ StagingEntry \notin backup_dir
    /\ staging = {}
    /\ FilesOf(backup_dir) # files_initial
    /\ \E e \in files_initial : e \notin backup_dir

\* C13: in a run of either variant of the script over a source root
\* without top-level directories nothing is copied, stopped or started, no
\* archive is made, rotate_backups is not entered, and the files of the
\* archive directory stay those of the start of the run.
C13_NoDirectoriesNoArchive ==
    source_dirs = {} =>
        /\ log = <<>>
        /\ rot_log = <<>>
        /\ dir_before = {}
        /\ FilesOf(backup_dir) = files_initial
        /\ pc \notin {"copy", "stop", "wait", "retry", "start", "zip",
                      "rot_list", "rot_delete", "cleanup",
                      "old_copy", "old_zip", "old_cleanup"}

\* a finished run over a source root that held only non-directory items,
\* next to a full set of older archives
C13_Witness ==
    /\ pc = "finished"
    /\ source_dirs = {}
    /\ Cardinality(source_items) = MaxEntries
    /\ idx = Len(listing) + 1
    /\ Cardinality(files_initial) = MAX_BACKUPS

\* the positions of the script before the source root is listed
BeforeListing == {"check_source", "check_dest"}
\* the run ended before the loop: by one of the two early returns, or by
\* os.listdir raising on the source root (a run that ends at a copy has
\* logged that copy)
AbortedRun == pc = "aborted" \/ (pc = "crashed" /\ log = <<>>)

\* C14: the script gets past the two checks only if the source root is a
\* directory and the destination root exists or was created; a run that
\* ended before the loop has copied, stopped and started nothing, made no
\* archive and did not enter rotate_backups.
C14_AbortBeforeAnyItem ==
    /\ ~source_isdir => pc \in {"check_source", "aborted"}
    /\ (pc \notin BeforeListing /\ ~AbortedRun) =>
          \/ StagingEntry \in backup_dir
          \/ (pc = "finished" /\ log # <<>> /\ Last(log).op = "rmtree_staging")
    /\ AbortedRun =>
          /\ log = <<>>
          /\ rot_log = <<>>
          /\ dir_before = {}
          /\ staging = {}
          /\ copied_count = 0 /\ error_count = 0
          /\ FilesOf(backup_dir) = files_initial

\* a run over two managed directories that ended because the destination
\* root was missing and could not be created
C14_Witness ==
    /\ pc = "aborted"
    /\ source_isdir
    /\ StagingEntry \notin backup_dir
    /\ Cardinality(docker_projects) = 2

\* the operations on an entry
EntryOps == {"copy", "stop", "retry", "start"}

\* C15: for any two entries a < b, every copy, stop, retry and start of a
\* happens before the initial copy of b.
C15_AscendingNameOrder ==
    \A i, j \in LogIdx :
        (/\ log[j].op = "copy"
         /\ log[i].op \in EntryOps
         /\ log[i].item < log[j].item) => i < j

\* the stops among the first n events that no later event among them
\* answers with a start of the same entry
OpenStops(n) ==
    {i \in 1..n : /\ log[i].op = "stop"
                  /\ ~\E j \in (i + 1)..n : Is(j, "start", log[i].item)}

\* C16: when a copy or a retried copy of an entry begins, every earlier
\* stop of another entry has been followed by a start attempt of that
\* entry; the script is about to copy only when no entry is between its stop
\* and its start; at most one entry is ever between its stop and its start.
C16_NoOverlapOfStopAndCopy ==
    /\ \A j \in LogIdx : log[j].op \in {"copy", "retry"} =>
          \A i \in 1..(j - 1) :
              (log[i].op = "stop" /\ log[i].item # log[j].item) =>
                  \E k \in (i + 1)..(j - 1) : Is(k, "start", log[i].item)
    /\ LET open == OpenStops(Len(log))
       IN  /\ pc \in {"loop", "copy"} => open = {}
           /\ Cardinality(open) <= 1

\* the copy of an entry began after another entry had been stopped and
\* started, and the entry was then stopped itself
C16_Witness ==
    /\ pc = "wait"
    /\ \E i, k, j \in LogIdx :
         /\ i < k /\ k < j
         /\ log[i].op = "stop"
         /\ Is(k, "start", log[i].item)
         /\ log[j].op = "copy" /\ log[j].item # log[i].item
         /\ OpenStops(Len(log)) = {Len(log)}
         /\ Last(log).item = log[j].item

\* the events of the log with operation op on item
EventsOf(op, item) == {i \in LogIdx : Is(i, op, item)}

\* entry a copied cleanly; entry b failed partially, was stopped, and its
\* retry succeeded; there is no other top-level directory
CleanAndRetried(a, b) ==
    /\ source_dirs = {a, b} /\ a # b
    /\ \E i \in EventsOf("copy", a) : log[i].res = "ok"
    /\ \E i \in EventsOf("copy", b) : log[i].res = "partial"
    /\ \E i \in EventsOf("stop", b) : log[i].res = "ok"
    /\ \E i \in EventsOf("retry", b) : log[i].res = "ok"

\* C17: stop and start are each issued at most once per entry; every start
\* comes after a stop of the same entry; an entry whose initial copy
\* succeeded is neither stopped nor started.  When one entry copied cleanly
\* and the other succeeded in the retry after a stop, then after the loop
\* both are counted as copied, the second was started exactly once, and the
\* finished run attempted make_archive exactly once.
C17_StopStartOncePerEntry ==
    /\ \A i \in LogIdx :
          /\ log[i].op \in {"stop", "start"} =>
                \A j \in (i + 1)..Len(log) :
                    ~(log[j].op = log[i].op /\ log[j].item = log[i].item)
          /\ log[i].op = "start" =>
                \E k \in 1..(i - 1) : Is(k, "stop", log[i].item)
          /\ (log[i].op = "copy" /\ log[i].res = "ok") =>
                \A j \in LogIdx :
                    ~(log[j].op \in {"stop", "start"} /\ log[j].item = log[i].item)
    /\ pc \in AfterLoop =>
          \A a, b \in source_dirs : CleanAndRetried(a, b) =>
              /\ copied_count = 2
              /\ error_count = 0
              /\ Cardinality(EventsOf("start", b)) = 1
              /\ EventsOf("stop", a) \cup EventsOf("start", a) = {}
              /\ pc = "finished" => Cardinality(ArchiveEvents) = 1

\* the finished run over svcA (clean) and svcB (retried after a stop)
C17_Witness ==
    /\ pc = "finished"
    /\ \E a, b \in ItemNames : a < b /\ CleanAndRetried(a, b)
    /\ ArchiveCreated

\* the removal of the staging tree has not been attempted
StagingKept == CleanupEvents = {}

\* C18: until the staging tree is removed at the end of the run, what is
\* staged for an entry whose initial or retried copy succeeded is exactly
\* the tree written by that copy, whatever was at the destination before;
\* no entry is staged twice.
C18_FreshCopyNeverMerge ==
    /\ StagingKept =>
          \A d \in SucceededDirs : AtDest(staging, d) = {Staged(d, "fresh")}
    /\ \A d \in 0..MaxEntries : Cardinality(AtDest(staging, d)) <= 1

\* the staging tree of an earlier run is in place; entry 1 was copied over
\* the old copy of that run, entry 2 succeeded in the retry after its first
\* attempt had replaced the file of its name by an incomplete tree
C18_Witness ==
    /\ pc = "summary"
    /\ Staged(0, "old") \in staging
    /\ \E a, b \in SucceededDirs :
         /\ a = 1 /\ b = 2
         /\ \E i \in EventsOf("copy", a) : log[i].res = "ok"
         /\ \E i \in EventsOf("copy", b) : log[i].res = "partial"
         /\ \E i \in EventsOf("retry", b) : log[i].res = "ok"
         /\ AtDest(staging, a) = {Staged(a, "fresh")}
         /\ AtDest(staging, b) = {Staged(b, "fresh")}

\* C19: every top-level item of the archive made by the run is a directory
\* whose copy was attempted in the run.
C19_ArchiveHoldsOnlyThisRun ==
    \A e \in archive_items : e.name \in AttemptedDirs /\ e.kind # "stray"

\* the run is over: it reached the final log lines, returned early from one
\* of the two checks, or an exception left backup_configs
RunEnded == pc \in {"finished", "aborted", "crashed"}

\* C20: every run ends, and a run that has obtained the listing of the
\* source root ends at its final step and nowhere else, whatever the copies,
\* stops, starts, make_archive, the removals of rotate_backups and the
\* removal of the staging tree return.
C20_RunsToCompletion ==
    /\ <>RunEnded
    /\ [][pc' \in {"aborted", "crashed"} => pc \in BeforeListing \cup {"listdir"}]_vars

\* ------------------------------------------------------------------------
\* Frame conditions, skipped items, the result of the run
\* ------------------------------------------------------------------------

\* C21: no step of a run changes the source root: neither whether it is a
\* directory, nor its items, nor which of them are directories; the compose
\* project directories are not changed either.
C21_SourceNeverMutated ==
    [][UNCHANGED <<source_isdir, source_items, source_dirs, docker_projects>>]_vars

\* a finished run that went through a clean initial copy, a retried copy, a
\* failure, the archive, a removal by rotate_backups and the removal of the
\* staging tree, with both source directories still in place
C21_Witness ==
    /\ pc = "finished"
    /\ Cardinality(source_dirs) = 2
    /\ \E i \in LogIdx : log[i].op = "copy" /\ log[i].res = "ok"
    /\ \E i \in LogIdx : log[i].op = "retry" /\ log[i].res = "fail"
    /\ ArchiveCreated
    /\ \E i \in Removals : rot_log[i].ok
    /\ CleanupEvents # {} /\ Last(log).res = "ok"
    /\ staging = {}

\* the entries of D that are not regular files named
\* docker_configs_backup_*.zip
NotMatching(D) == D \ Matching(D)

\* C22: rotate_backups attempts os.remove only on regular files whose name
\* has the prefix and the suffix; every other file and every directory of
\* the listed directory stays; nothing is added; the number of files
\* selected for deletion is computed from the matching files alone.
C22_RotateTouchesOnlyArchives ==
    /\ \A i \in Removals : FileEntry(rot_log[i].name) \in Matching(dir_before)
    /\ NotMatching(dir_before) \subseteq backup_dir
    /\ backup_dir \subseteq dir_before
    /\ (pc = "rot_done" /\ Listed) =>
          Len(files_to_delete) =
              (IF Cardinality(Matching(dir_before)) <= max_to_keep \/ max_to_keep = 0
               THEN 0
               ELSE Cardinality(Matching(dir_before)) - max_to_keep)

\* a rotation that removed an archive from a directory which also holds the
\* staging directory, a directory with the name of an archive, a .tar with
\* the prefix and a .zip without it: with those counted, one more file would
\* have been selected
C22_Witness ==
    /\ pc = "rot_done"
    /\ \E i \in Removals : rot_log[i].ok
    /\ {StagingEntry, DirEntry(ArchiveName(1)), FileEntry(TarName), FileEntry(OtherZip)}
           \subseteq backup_dir
    /\ Len(files_to_delete) = 1
    /\ Cardinality(Matching(dir_before)) = max_to_keep + 1

\* the top-level items of the source root that are not directories
NonDirs == source_items \ source_dirs

\* the loop is at an item that is not a directory
AtNonDir == pc = "loop" /\ idx <= Len(listing) /\ item_name \notin source_dirs

\* C23: no copy, stop, wait, retry or start is ever performed for an item
\* that is not a directory, nothing is staged under its name, and the step
\* of the loop over such an item moves to the next item and changes neither
\* counter, nor the staging tree, nor the archive directory.
C23_NonDirectoriesSkipped ==
    /\ [](\A i \in LogIdx : log[i].op \in EntryOps \cup {"sleep"} =>
                                log[i].item \notin NonDirs)
    /\ [](\A e \in staging : e.name \notin NonDirs)
    /\ [][AtNonDir =>
            /\ pc' = "loop" /\ idx' = idx + 1
            /\ UNCHANGED <<copied_count, error_count, log, staging, backup_dir>>]_vars

\* a finished run over a file, listed first, and a directory: one result,
\* for the directory
C23_Witness ==
    /\ pc = "finished"
    /\ Cardinality(NonDirs) = 1
    /\ Cardinality(source_dirs) = 1
    /\ listing[1] \in NonDirs
    /\ copied_count = 1 /\ error_count = 0
    /\ ArchiveCreated

\* C24: whether or not the last write to standard output succeeds, a
\* finished run ends with a status other than that of a run without failed
\* entries (0, or 120 when the write fails) exactly if it counted a failed
\* entry.
C24_ExitStatusReflectsFailures ==
    pc = "finished" =>
        \A flushed \in BOOLEAN :
            error_count > 0 <=> ExitStatus(flushed) # (IF flushed THEN 0 ELSE 120)

\* C25: when rotate_backups has returned from a directory it could list,
\* with max_to_keep = 0, at least one matching archive and no failed
\* deletion, no matching archive is left.
C25_KeepZeroDeletesAll ==
    (/\ pc = "rot_done" /\ Listed
     /\ max_to_keep = 0
     /\ Matching(dir_before) # {}
     /\ \A i \in Removals : rot_log[i].ok) => Matching(backup_dir) = {}

\* the archives written by the make_archive calls of the run that returned
NewArchives ==
    {FileEntry(ArchiveName(log[i].item)) : i \in {j \in ArchiveEvents : log[j].res = "ok"}}

\* the listing of the archive directory raised, or an os.remove did
RotationFailed ==
    \/ rot_log # <<>> /\ ~rot_log[1].ok
    \/ \E i \in Removals : ~rot_log[i].ok

\* C26 as stated: after a rotation in which the listing or a deletion failed,
\* the run goes on to the removal of the staging tree and finishes; the
\* archive it created is in the archive directory.
C26_RotationFailureDoesNotBlock ==
    RotationFailed =>
        /\ pc \in {"rot_delete", "cleanup", "finished"}
        /\ ArchiveCreated
        /\ NewArchives \subseteq backup_dir
        /\ pc = "finished" => CleanupEvents = {Len(log)}

\* the name of the archive of make_archive event i is not smaller than the
\* name of any file that was in the archive directory when the run started
NotBeforeExisting(i) ==
    \A f \in files_initial : ~LexLess(ArchiveName(log[i].item), f.name)

\* C26, amended: after a rotation in which the listing or a deletion failed,
\* the run goes on to the removal of the staging tree and finishes.  The
\* archive it created is in the archive directory when its name is not
\* smaller than that of any archive the run found; in every case it is
\* missing exactly if an os.remove of the rotation has deleted it.
C26_RotationFailureKeepsUndeletedArchive ==
    RotationFailed =>
        /\ pc \in {"rot_delete", "cleanup", "finished"}
        /\ ArchiveCreated
        /\ \A i \in ArchiveEvents : log[i].res = "ok" =>
              /\ NotBeforeExisting(i) =>
                    FileEntry(ArchiveName(log[i].item)) \in backup_dir
              /\ FileEntry(ArchiveName(log[i].item)) \notin backup_dir <=>
                    \E j \in Removals :
                        rot_log[j].ok /\ rot_log[j].name = ArchiveName(log[i].item)
        /\ pc = "finished" => CleanupEvents = {Len(log)}

\* a finished run whose archive got a name smaller than those of the
\* archives it found: its rotation deleted the new archive and then could
\* not delete the next one, and the staging tree was removed afterwards
C26_Witness ==
    /\ pc = "finished"
    /\ rot_log # <<>> /\ rot_log[1].ok
    /\ \E i \in ArchiveEvents :
         /\ log[i].res = "ok"
         /\ FileEntry(ArchiveName(log[i].item)) \notin backup_dir
         /\ \E j \in Removals : rot_log[j].ok /\ rot_log[j].name = ArchiveName(log[i].item)
    /\ \E j \in Removals : ~rot_log[j].ok
    /\ CleanupEvents = {Len(log)}
    /\ StagingEntry \notin backup_dir

\* the clock of make_archive event i is not before the instant of any
\* archive that was in the directory when the run started
ClockNotBackwards(i) ==
    \A t \in 1..MAX_BACKUPS :
        t <= log[i].item \/ FileEntry(ArchiveName(t)) \notin files_initial

\* C27: an archive created at an instant that is not before that of any
\* existing archive is never the target of an os.remove of the rotation of
\* the same run (max_to_keep is MAX_BACKUPS >= 1) and is in the archive
\* directory from its creation on.
C27_NewArchiveSurvivesRotation ==
    \A i \in ArchiveEvents : (log[i].res = "ok" /\ ClockNotBackwards(i)) =>
        /\ max_to_keep >= 1
        /\ FileEntry(ArchiveName(log[i].item)) \in backup_dir
        /\ \A j \in Removals : rot_log[j].name # ArchiveName(log[i].item)

\* a finished run that added an archive newer than the MAX_BACKUPS existing
\* ones; its rotation removed the oldest and kept the new one
C27_Witness ==
    /\ pc = "finished"
    /\ Cardinality(files_initial) = MAX_BACKUPS
    /\ \E i \in ArchiveEvents :
         /\ log[i].res = "ok" /\ ClockNotBackwards(i)
         /\ FileEntry(ArchiveName(log[i].item)) \notin files_initial
         /\ FileEntry(ArchiveName(log[i].item)) \in backup_dir
    /\ \E j \in Removals : rot_log[j].ok /\ rot_log[j].name = ArchiveName(1)
    /\ Cardinality(FilesOf(backup_dir)) = MAX_BACKUPS

\* ------------------------------------------------------------------------
\* Runs in sequence: the script is started again (by cron) after a run has
\* ended.  The source root holds one managed directory and one file; the
\* archive directory and the staging tree are what the last run left.
\* ------------------------------------------------------------------------
\* how the rotation of the run went
RotationResult ==
    IF rot_log # <<>> /\ ~rot_log[1].ok THEN "listdir_failed"
    ELSE IF \E i \in Removals : ~rot_log[i].ok THEN "remove_failed"
    ELSE "ok"

NewRun ==
    /\ RunEnded
    /\ Len(past_runs) + 1 < MaxRuns
    /\ past_runs' = Append(past_runs, RotationResult)
    /\ pc' = "check_source"
    /\ listing' = <<>>
    /\ idx' = 1
    /\ copied_count' = 0
    /\ error_count' = 0
    /\ container_stopped' = FALSE
    /\ retry_successful' = FALSE
    /\ log' = <<>>
    /\ files_to_delete' = <<>>
    /\ del_idx' = 1
    /\ rot_log' = <<>>
    /\ dir_before' = {}
    /\ archive_items' = {}
    /\ files_initial' = FilesOf(backup_dir)
    /\ UNCHANGED <<source_isdir, source_items, source_dirs, docker_projects,
                   backup_dir, staging, max_to_keep, ret, tvVars>>

InitRuns ==
    /\ Init
    /\ source_items = 1..2
    /\ source_dirs = {1}
    /\ docker_projects = {1}
    /\ StagingEntry \notin backup_dir

NextRuns == Next \/ NewRun

SpecRuns == InitRuns /\ [][NextRuns]_vars

\* the number of matching archives of D
ArchiveCount(D) == Cardinality(Matching(D))

\* the rotations of the earlier runs and of this one
Rotations == Append(past_runs, RotationResult)

\* C28 as stated: the first run starts with at most MAX_BACKUPS matching
\* archives; when no os.remove has failed in this run or an earlier one, a
\* run ends with at most MAX_BACKUPS matching archives.
C28_BoundedIfDeletionsSucceed ==
    (RunEnded /\ \A r \in 1..Len(Rotations) : Rotations[r] # "remove_failed") =>
        ArchiveCount(backup_dir) <= MAX_BACKUPS


\* ========================================================================
\* tv_show_analyzer.py: analyze_show, analyze_season_organization,
\* perform_organization, analyze_existing_seasons and
\* analyze_single_season_folder
\* ========================================================================
\* A season folder is a directory whose name matches SEASON_FOLDER_REGEX,
\* "Season <digits>"; it is written as the sequence of the character codes
\* of its digits.  The show folder can hold, for every season number, the
\* folder "Season n" and the folder "Season 0n".
SeasonFolders ==
    {<<48 + n>> : n \in 1..MaxSeason} \cup {<<48, 48 + n>> : n \in 1..MaxSeason}

\* int(match.group(1))
RECURSIVE SeasonNumber(_)
SeasonNumber(digits) ==
    IF digits = <<>> THEN 0
    ELSE SeasonNumber(SubSeq(digits, 1, Len(digits) - 1)) * 10
         + (digits[Len(digits)] - 48)

\* f"Season {season_num}", the folder perform_organization creates
TargetFolder(n) == <<48 + n>>

\* the key "error" of the dict that analyze_existing_seasons returns when it
\* has caught an exception; no season folder has the number 0 here
ErrorKey == 0

\* An item of a season folder is what the analyzer reads of it:
\*   isfile  os.path.isfile(item_path)
\*   video   is_video_file(item)
\*   match   SEASON_EPISODE_REGEX finds S##E## in the name
\*   s, e    the numbers parse_season_episode returns when it does
\*   tag     get_release_tag(item, s, e); the text after S##E## of a video
\*           file holds at least the extension, so it is never empty
Item(isfile, video, match, s, e, tag) ==
    [isfile |-> isfile, video |-> video, match |-> match, s |-> s, e |-> e, tag |-> tag]

\* the items a folder of season n can hold: a sub-directory, a file that is
\* not a video but carries S##E##, a video without S##E##, a video of
\* another season, the episode files of season n in one release, and
\* episode 1 in a second release
FolderEntries(n) ==
    { Item(FALSE, FALSE, FALSE, 0, 0, 1),
      Item(TRUE, FALSE, TRUE, n, 1, 1),
      Item(TRUE, TRUE, FALSE, 0, 0, 1),
      Item(TRUE, TRUE, TRUE, n + 1, 1, 1),
      Item(TRUE, TRUE, TRUE, n, 1, 2) }
    \cup { Item(TRUE, TRUE, TRUE, n, e, 1) : e \in 0..MaxEpisode }

\* the conditions under which the loop body reaches "episodes[e] = item"
IsEpisodeOf(item, n) ==
    /\ item.isfile /\ item.video
    /\ item.match
    /\ item.s = n

\* "episodes[e] = item": the keys of episodes after one more item
AddEpisode(eps, item, n) == IF IsEpisodeOf(item, n) THEN eps \cup {item.e} ELSE eps

\* "if tag: release_tags.add(tag)"
AddTag(tags, item, n) ==
    IF IsEpisodeOf(item, n) /\ item.tag # 0 THEN tags \cup {item.tag} ELSE tags

MinOf(S) == CHOOSE x \in S : \A y \in S : x <= y
MaxOf(S) == CHOOSE x \in S : \A y \in S : y <= x

\* 1. Naming Inconsistency Check
InconsistentTags(tags) ==
    IF Cardinality(tags) > 1 THEN [kind |-> "tags", tags |-> Ascending(tags)]
    ELSE None

\* sorted(list(expected_episodes - found_episodes))
MissingEpisodes(eps) == Ascending((1..MaxOf(eps)) \ eps)

HoleMessages(eps) ==
    (IF MinOf(eps) > 1 THEN <<[msg |-> "starts_at", v |-> <<MinOf(eps)>>]>> ELSE <<>>)
    \o (IF MissingEpisodes(eps) # <<>>
        THEN <<[msg |-> "missing", v |-> MissingEpisodes(eps)]>> ELSE <<>>)

\* 2. Season Hole Check
HoleDescription(eps) ==
    IF Cardinality(eps) = 1 THEN None
    ELSE IF HoleMessages(eps) = <<>> THEN None
    ELSE [kind |-> "hole", messages |-> HoleMessages(eps)]

\* what analyze_single_season_folder returns for a folder it could list,
\* when no exception is raised after the listing
SeasonResult(eps, tags) ==
    IF eps = {} THEN <<PyTrue, PyTrue>>
    ELSE <<InconsistentTags(tags), HoleDescription(eps)>>

\* what it returns when it has caught an exception: None, f"Error: {e}"
ErrorResult == <<None, [kind |-> "error"]>>

IsNone(v) == v.kind = "None"

\* d[k] = v
DictSet(d, k, v) == [x \in DOMAIN d \cup {k} |-> IF x = k THEN v ELSE d[x]]

\* "if value is not None: d[season_num] = value"
RecordIfNotNone(d, k, v) == IF IsNone(v) THEN d ELSE DictSet(d, k, v)

\* {"error": ...}, the second dict analyze_existing_seasons returns from its
\* except clauses
ErrorDict == DictSet(EmptyDict, ErrorKey, [kind |-> "error"])

seasonLocals == <<season_folder, season_num, folder_items, episodes, release_tags,
                  inconsistent_tags, hole_description>>
resultVars == <<season_inconsistencies, season_holes, overall_consistent,
                overall_complete>>

\* analyze_show calls analyze_season_organization, which looks for video
\* files that lie in the show folder itself and carry a season number:
\*   loose        the season numbers of those files
\*   interactive  args.interactive
\*   listed       FALSE when os.listdir(show_path), or a print after it,
\*                raises: the except clauses return False
\* Without such a file it returns False; with some it returns True, after
\* asking the user when args.interactive is set.  The prints of a verbose
\* run that precede the try statement can raise (a standard output that is
\* closed, or cannot encode the text), and the exception leaves analyze_show.
TvCheckOrganization ==
    /\ tv_pc = "analyze_show"
    /\ \/ /\ verbose
          /\ tv_pc' = "show_raised"
          /\ UNCHANGED <<files_to_organize, needs_org>>
       \/ \E loose \in SUBSET (1..MaxSeason), interactive \in BOOLEAN, listed \in BOOLEAN :
            IF ~listed \/ loose = {}
            THEN /\ needs_org' = FALSE
                 /\ tv_pc' = "list_show"
                 /\ UNCHANGED files_to_organize
            ELSE IF interactive
            THEN /\ files_to_organize' = loose
                 /\ tv_pc' = "prompt"
                 /\ UNCHANGED needs_org
            ELSE /\ needs_org' = TRUE
                 /\ tv_pc' = "list_show"
                 /\ UNCHANGED files_to_organize
    /\ UNCHANGED <<verbose, seasons, season_queue, seasonLocals, resultVars,
                   empty_folders>>
    /\ UNCHANGED backupVars

\* input() returns and analyze_season_organization goes on:
\*   answer     what the user typed, 'y' or something else
\*   created    the folders os.makedirs creates, or finds, in
\*              perform_organization; it is called after the answer 'y'
\*              only, and each os.makedirs can fail
\*   completed  FALSE when input() or one of the prints raises: the except
\*              clause returns False, whatever has been moved by then
TvAnswer ==
    /\ tv_pc = "prompt"
    /\ \E answer \in {"y", "n"},
          created \in SUBSET {TargetFolder(n) : n \in files_to_organize},
          completed \in BOOLEAN :
         /\ answer # "y" => created = {}
         /\ seasons' = seasons \cup created
         /\ needs_org' = completed
    /\ files_to_organize' = {}
    /\ tv_pc' = "list_show"
    /\ UNCHANGED <<verbose, season_queue, seasonLocals, resultVars, empty_folders>>
    /\ UNCHANGED backupVars

\* analyze_show calls analyze_existing_seasons.  Its first print, of a
\* verbose run, precedes the try statement.  sorted(os.listdir(show_path))
\* gives the season folders in the order of their names, or raises; the
\* except clauses return ({}, {"error": ...}), as they do when the print for
\* a show without season folder raises.
TvListShow ==
    /\ tv_pc = "list_show"
    /\ \/ /\ verbose
          /\ tv_pc' = "show_raised"
          /\ UNCHANGED <<season_queue, season_inconsistencies, season_holes>>
       \/ /\ season_queue' = SortNames(seasons)
          /\ tv_pc' = "next_season"
          /\ UNCHANGED <<season_inconsistencies, season_holes>>
       \/ /\ season_queue' = <<>>
          /\ season_inconsistencies' = EmptyDict
          /\ season_holes' = ErrorDict
          /\ tv_pc' = "next_season"
    /\ UNCHANGED <<verbose, seasons, files_to_organize, needs_org, seasonLocals,
                   overall_consistent, overall_complete, empty_folders>>
    /\ UNCHANGED backupVars

\* The loop of analyze_existing_seasons reaches the next season folder.  In
\* a verbose run the print before the call can raise: the loop is left and
\* ({}, {"error": ...}) returned.  Otherwise analyze_single_season_folder is
\* called: its locals are initialised, and os.listdir(season_path) succeeds
\* or raises.
TvEnterSeason ==
    /\ tv_pc = "next_season"
    /\ season_queue # <<>>
    /\ \/ /\ verbose
          /\ season_queue' = <<>>
          /\ season_inconsistencies' = EmptyDict
          /\ season_holes' = ErrorDict
          /\ tv_pc' = "next_season"
          /\ UNCHANGED seasonLocals
       \/ /\ season_folder' = Head(season_queue)
          /\ season_num' = SeasonNumber(Head(season_queue))
          /\ folder_items' = {}
          /\ episodes' = {}
          /\ release_tags' = {}
          /\ inconsistent_tags' = None
          /\ \/ /\ hole_description' = None
                /\ tv_pc' = "read_items"
             \/ /\ hole_description' = ErrorResult[2]
                /\ tv_pc' = "record"
          /\ UNCHANGED <<season_queue, season_inconsistencies, season_holes>>
    /\ UNCHANGED <<verbose, seasons, files_to_organize, needs_org,
                   overall_consistent, overall_complete, empty_folders>>
    /\ UNCHANGED backupVars

\* one iteration of "for item in os.listdir(season_path)"
TvReadItem ==
    /\ tv_pc = "read_items"
    /\ Cardinality(folder_items) < MaxFiles
    /\ \E item \in FolderEntries(season_num) \ folder_items :
         /\ folder_items' = folder_items \cup {item}
         /\ episodes' = AddEpisode(episodes, item, season_num)
         /\ release_tags' = AddTag(release_tags, item, season_num)
    /\ UNCHANGED <<tv_pc, verbose, seasons, files_to_organize, needs_org,
                   season_queue, season_folder, season_num, inconsistent_tags,
                   hole_description, resultVars, empty_folders>>
    /\ UNCHANGED backupVars

\* The loop has ended: the checks after it, and the return.  In a verbose
\* run each check prints its outcome; when a print raises, "except
\* Exception" returns the error in place of the outcome.
TvReturn ==
    /\ tv_pc = "read_items"
    /\ \/ /\ inconsistent_tags' = SeasonResult(episodes, release_tags)[1]
          /\ hole_description' = SeasonResult(episodes, release_tags)[2]
          /\ empty_folders' = IF episodes = {} THEN empty_folders \cup {season_folder}
                              ELSE empty_folders
       \/ /\ verbose
          /\ inconsistent_tags' = ErrorResult[1]
          /\ hole_description' = ErrorResult[2]
          /\ UNCHANGED empty_folders
    /\ tv_pc' = "record"
    /\ UNCHANGED <<verbose, seasons, files_to_organize, needs_org, season_queue,
                   season_folder, season_num, folder_items, episodes,
                   release_tags, resultVars>>
    /\ UNCHANGED backupVars

\* analyze_existing_seasons stores what the call returned
TvRecord ==
    /\ tv_pc = "record"
    /\ season_inconsistencies' =
           RecordIfNotNone(season_inconsistencies, season_num, inconsistent_tags)
    /\ season_holes' = RecordIfNotNone(season_holes, season_num, hole_description)
    /\ season_queue' = Tail(season_queue)
    /\ tv_pc' = "next_season"
    /\ UNCHANGED <<verbose, seasons, files_to_organize, needs_org, seasonLocals,
                   overall_consistent, overall_complete, empty_folders>>
    /\ UNCHANGED backupVars

\* analyze_existing_seasons returns its two dicts and analyze_show derives
\* the overall status from them; the summary a verbose run prints after
\* that can raise, and the exception leaves analyze_show
TvFinishShow ==
    /\ tv_pc = "next_season"
    /\ season_queue = <<>>
    /\ overall_consistent' = (DOMAIN season_inconsistencies = {})
    /\ overall_complete' = (DOMAIN season_holes = {})
    /\ \/ tv_pc' = "show_done"
       \/ /\ verbose
          /\ tv_pc' = "show_raised"
    /\ UNCHANGED <<verbose, seasons, files_to_organize, needs_org, season_queue,
                   seasonLocals, season_inconsistencies, season_holes,
                   empty_folders>>
    /\ UNCHANGED backupVars

\* analyze_show is called on a show folder; the backup script is not running
InitTv ==
    /\ tv_pc = "analyze_show"
    /\ verbose \in BOOLEAN
    /\ seasons \in SUBSET SeasonFolders
    /\ files_to_organize = {}
    /\ needs_org = FALSE
    /\ season_queue = <<>>
    /\ season_folder = <<>>
    /\ season_num = 0
    /\ folder_items = {}
    /\ episodes = {}
    /\ release_tags = {}
    /\ inconsistent_tags = None
    /\ hole_description = None
    /\ season_inconsistencies = EmptyDict
    /\ season_holes = EmptyDict
    /\ overall_consistent = TRUE
    /\ overall_complete = TRUE
    /\ empty_folders = {}
    /\ pc = "finished"
    /\ source_isdir = FALSE
    /\ source_items = {}
    /\ source_dirs = {}
    /\ docker_projects = {}
    /\ listing = <<>>
    /\ idx = 1
    /\ copied_count = 0
    /\ error_count = 0
    /\ container_stopped = FALSE
    /\ retry_successful = FALSE
    /\ log = <<>>
    /\ backup_dir = {}
    /\ RotInit
    /\ ret = "cleanup"
    /\ past_runs = <<>>
    /\ staging = {}
    /\ archive_items = {}
    /\ files_initial = {}

NextTv ==
    \/ TvCheckOrganization
    \/ TvAnswer
    \/ TvListShow
    \/ TvEnterSeason
    \/ TvReadItem
    \/ TvReturn
    \/ TvRecord
    \/ TvFinishShow

SpecTv == InitTv /\ [][NextTv]_vars


\* ========================================================================
\* Properties of tv_show_analyzer (checked under SpecTv)
\* ========================================================================
\* C29: a season folder without a valid episode file, the only folder of
\* its season, gets no entry in season_inconsistencies and none in
\* season_holes when its result is stored, and a show whose season folders
\* all are such folders ends with overall_consistent = True and
\* overall_complete = True.
C29_EmptySeasonCompleteAndConsistent ==
    /\ ( /\ tv_pc = "next_season"
         /\ season_folder \in empty_folders
         /\ \A f \in seasons : SeasonNumber(f) = season_num => f = season_folder )
       => /\ season_num \notin DOMAIN season_inconsistencies
          /\ season_num \notin DOMAIN season_holes
    /\ (tv_pc = "show_done" /\ seasons # {} /\ empty_folders = seasons) =>
          overall_consistent /\ overall_complete

\* C30: when analyze_single_season_folder returns for a folder with valid
\* episode files, it reports a hole exactly when there are two or more
\* distinct episode numbers and some number of 1..max is not among them; a
\* single episode number gives no hole, whatever it is.
C30_HoleIffNumberMissingFromOne ==
    (tv_pc = "record" /\ episodes # {}) =>
        IF Cardinality(episodes) >= 2
        THEN ~IsNone(hole_description) <=> (\E k \in 1..MaxOf(episodes) : k \notin episodes)
        ELSE IsNone(hole_description)

====
